---- MODULE Spec2Model ----
(***************************************************************************)
(* A model of interview_assistant.py: the streaming-response pipeline of   *)
(* InterviewAssistantApp.  One interactive (Tk) thread runs the widget     *)
(* handlers and the process_queue poll loop; every accepted submission     *)
(* starts a generation thread running get_ai_answer, every voice capture a *)
(* thread running _listen_and_process.  Background threads talk to the     *)
(* interactive thread through self.queue.                                  *)
(*                                                                         *)
(* Text is modelled as a sequence of tokens: a typed text, a streamed      *)
(* fragment or an error message is one or two tokens, and Python's string  *)
(* concatenation (+=) is sequence concatenation (\o).                      *)
(***************************************************************************)
EXTENDS Integers, Sequences, FiniteSets, TLC

(***************************************************************************)
(* Bounds of the model.                                                    *)
(***************************************************************************)
\* submissions accepted over a run (generation threads ever started)
MaxGen == 2
\* voice capture threads ever started, and those started in Spec and SpecEval
MaxVoice == 2
MaxVoiceWithGen == 1
\* root.after callbacks pending at a time
MaxTimers == 3
\* lines (chunks) a provider delivers in one response before it must end:
\* in SpecStream, and in the other specifications
MaxStream == 2
MaxShortStream == 1
MaxNoStream == 0
\* submissions accepted over a run of SpecStream
MaxStreamGen == 1
\* events waiting in self.queue: a put waits while the queue holds this many
MaxQueue == 3
\* Save & Close of the settings dialog over a run
MaxSettings == 1
\* flips of the evaluation switch over a run
MaxToggle == 2
\* length of self.predefined_questions
MaxQuestions == 4

GenIds == 1..MaxGen
VoiceIds == 1..MaxVoice

(***************************************************************************)
(* Inputs, drawn from small sets.                                          *)
(***************************************************************************)
\* what the user types (non-empty after strip()), the questions of the
\* dropdown other than the placeholder, what the recognizer hears
Texts == {"typed"}
Questions == {"predefined"}
Spoken == {"spoken"}
\* the content of a well-formed streamed delta: the text of the delta that
\* comes as the i-th line of a response is FragAt(i), so that the fragments
\* of one response are told apart by their text
FragNames == <<"a", "b", "c", "d", "e">>
FragAt(i) == FragNames[i]
Frags == {FragNames[i] : i \in 1..Len(FragNames)}
\* DEFAULT_PREDEFINED_QUESTIONS (lines 48-54): the placeholder of the
\* dropdown, then the questions
Placeholder == "Select a predefined question..."
DEFAULT_PREDEFINED_QUESTIONS == <<Placeholder, "predefined">>
\* what settings_question_entry can hold after strip()
QuestionTexts == Questions \cup {"new", Placeholder, ""}
\* persona texts the settings dialog can hold; the first is the start value
DEFAULT_PERSONAL_CONTEXT == "P1"
Personas == {"P1", "P2"}
\* company texts the settings dialog can hold (after strip())
Companies == {"", "Co"}

(***************************************************************************)
(* MODELS, the provider registry (lines 36-41).                            *)
(***************************************************************************)
MODELS ==
  [n \in {"Sonoma Sky (OpenRouter)", "Sonoma Dusk (OpenRouter)",
          "Gemini 2.0 Flash (OpenRouter)", "Gemini 1.5 Flash (Google AI)"} |->
     CASE n = "Sonoma Sky (OpenRouter)" ->
            [id |-> "openrouter/sonoma-sky-alpha", api |-> "openrouter",
             key_name |-> "OPENROUTER_API_KEY"]
       [] n = "Sonoma Dusk (OpenRouter)" ->
            [id |-> "openrouter/sonoma-dusk-alpha", api |-> "openrouter",
             key_name |-> "OPENROUTER_API_KEY"]
       [] n = "Gemini 2.0 Flash (OpenRouter)" ->
            [id |-> "google/gemini-2.0-flash-exp:free", api |-> "openrouter",
             key_name |-> "OPENROUTER_API_KEY"]
       [] n = "Gemini 1.5 Flash (Google AI)" ->
            [id |-> "gemini-1.5-flash-latest", api |-> "google",
             key_name |-> "GOOGLE_API_KEY"]]

\* MODELS.get(name): the profile, or None
NoProfile == [id |-> "", api |-> "", key_name |-> ""]
ModelsGet(name) == IF name \in DOMAIN MODELS THEN MODELS[name] ELSE NoProfile

\* What settings_model_dropdown.get() can return at Save & Close: a key of
\* MODELS picked in the list, or the empty string of a combobox whose text
\* variable (an unreferenced tk.StringVar, line 314) is gone.
ModelChoices == {"Sonoma Sky (OpenRouter)", "Gemini 1.5 Flash (Google AI)", ""}


(***************************************************************************)
(* Message texts the code builds.                                          *)
(***************************************************************************)
\* line 546: f"Model '{self.selected_model_name}' not configured."
ModelNotConfiguredMsg(name) == <<"Model not configured:", name>>
\* line 551: f"... API Key Error: {key_name} not found in .env file."
ApiKeyErrorMsg(key_name) == <<"API Key Error: not found in .env:", key_name>>
\* line 566, 588, 592, 600: the failure texts sent as stream_update
UnexpectedErrorText == "Unexpected Error during API call"
ApiConnectionErrorText == "API Connection Error"
GoogleNotInitializedText == "Google AI model not initialized."
GoogleAiErrorText == "Google AI Error"
FailureTexts == {UnexpectedErrorText, ApiConnectionErrorText,
                 GoogleNotInitializedText, GoogleAiErrorText}

(***************************************************************************)
(* The events put on self.queue: (msg_type, data) pairs, here one record   *)
(* shape for all.  g is not in the code: it names the generation thread    *)
(* that put the event (0: no generation thread), so that properties can    *)
(* speak of "this submission's events".                                    *)
(***************************************************************************)
AddMessageEv(speaker, text, tag, g) ==
  [type |-> "add_message", speaker |-> speaker, text |-> text, tag |-> tag,
   flag |-> FALSE, g |-> g]
StreamUpdateEv(chunk, g) ==
  [type |-> "stream_update", speaker |-> "", text |-> <<chunk>>, tag |-> "",
   flag |-> FALSE, g |-> g]
SetUiStateEv(enabled, g) ==
  [type |-> "set_ui_state", speaker |-> "", text |-> <<>>, tag |-> "",
   flag |-> enabled, g |-> g]
SubmitQuestionEv(text) ==
  [type |-> "submit_question", speaker |-> "", text |-> <<text>>, tag |-> "",
   flag |-> FALSE, g |-> 0]
ButtonUpdateEv(label) ==
  [type |-> "button_update", speaker |-> "", text |-> <<label>>, tag |-> "",
   flag |-> FALSE, g |-> 0]
VoiceStatusEv(label) ==
  [type |-> "voice_status", speaker |-> "", text |-> <<label>>, tag |-> "",
   flag |-> FALSE, g |-> 0]

(***************************************************************************)
(* State.                                                                  *)
(***************************************************************************)
VARIABLES
  env,                  \* module globals OPENROUTER_API_KEY, GOOGLE_API_KEY: set?
  gemini_model,         \* self.gemini_model is not None
  selected_model_name,  \* self.selected_model_name
  personal_context,     \* self.personal_context
  company_context,      \* self.company_context
  evaluation_mode,      \* self.evaluation_mode (tk.BooleanVar)
  last_question_asked,  \* self.last_question_asked ("" when none)
  last_ai_response,     \* self.last_ai_response
  conversation_history, \* self.conversation_history
  conversation_area,    \* the transcript widget: message blocks, welcome text left out
  controls,             \* state of text_input, send_button, listen_button, question_dropdown
  listen_button_text,   \* label of listen_button
  voice_status_label,   \* text of voice_status_label
  queue,                \* self.queue
  in_tick,              \* the interactive thread is inside process_queue's loop
  timers,               \* callbacks scheduled with root.after, not yet run
  is_listening,         \* self.is_listening (threading.Event)
  gens,                 \* the generation threads (get_ai_answer): position and locals
  voices,               \* the voice capture threads (_listen_and_process): position
  emitted,              \* per generation thread: the events it has put, in order
  fed,                  \* per generation thread: the lines its provider has delivered
  messagebox,           \* title of the last messagebox shown ("" when none)
  saved_file,           \* the file save_conversation has written (<<>>: none yet)
  load_log,             \* the last load_conversation that read a file (<<>>: none yet)
  predefined_questions, \* self.predefined_questions
  dropdown_values,      \* question_dropdown['values']
  nSettings,            \* Save & Close so far
  nToggle               \* flips of the evaluation switch so far

vars == <<env, gemini_model, selected_model_name, personal_context,
          company_context, evaluation_mode, last_question_asked,
          last_ai_response, conversation_history, conversation_area, controls,
          listen_button_text, voice_status_label, queue, in_tick, timers,
          is_listening, gens, voices, emitted, fed, messagebox, saved_file,
          load_log, predefined_questions, dropdown_values, nSettings,
          nToggle>>

\* groups used in UNCHANGED
configVars == <<env, gemini_model, selected_model_name, personal_context,
                company_context, nSettings>>
fileVars == <<saved_file, load_log>>
questionVars == <<predefined_questions, dropdown_values>>
storeVars == <<fileVars, questionVars>>
voiceUiVars == <<listen_button_text, voice_status_label>>
logVars == <<emitted, fed>>

\* what a submission found when it was accepted (not in the code: kept for
\* the properties that compare a generation with the moment of acceptance)
Accepted(persona, company, model, eval_mode) ==
  [persona |-> persona, company |-> company, model |-> model,
   eval_mode |-> eval_mode]

\* a generation thread that has not been started.  question, user_answer,
\* model_config, full_prompt and tag are get_ai_answer's locals; api_called
\* and sent_id record the adapter it called and the model id it sent;
\* outcome records the exit path it took.
NoGen == [pc |-> "none", question |-> "", user_answer |-> "",
          model_config |-> NoProfile, full_prompt |-> <<>>, tag |-> "",
          api_called |-> "", sent_id |-> "", outcome |-> "",
          accepted |-> Accepted("", "", "", FALSE)]

Init ==
  /\ env \in [{"OPENROUTER_API_KEY", "GOOGLE_API_KEY"} -> BOOLEAN]
  \* _initialize_apis: the Google model exists only with a key, and not if
  \* genai raised (lines 440-445)
  /\ gemini_model \in (IF env["GOOGLE_API_KEY"] THEN BOOLEAN ELSE {FALSE})
  /\ selected_model_name = "Sonoma Sky (OpenRouter)"
  /\ personal_context = DEFAULT_PERSONAL_CONTEXT
  /\ company_context = ""
  /\ evaluation_mode = FALSE
  /\ last_question_asked = ""
  /\ last_ai_response = <<>>
  /\ conversation_history = <<>>
  /\ conversation_area = <<>>
  /\ controls = "normal"
  /\ listen_button_text = "Voice"
  /\ voice_status_label = "Ready"
  /\ queue = <<>>
  /\ in_tick = FALSE
  /\ timers = <<>>
  /\ is_listening = FALSE
  /\ gens = [w \in GenIds |-> NoGen]
  /\ voices = [v \in VoiceIds |-> "none"]
  /\ emitted = [w \in GenIds |-> <<>>]
  /\ fed = [w \in GenIds |-> <<>>]
  /\ messagebox = ""
  /\ saved_file = <<>>
  /\ load_log = <<>>
  \* _load_config with no config.json (line 133), create_widgets (line 232)
  /\ predefined_questions = DEFAULT_PREDEFINED_QUESTIONS
  /\ dropdown_values = DEFAULT_PREDEFINED_QUESTIONS
  /\ nSettings = 0
  /\ nToggle = 0


(***************************************************************************)
(* Helpers of the interactive thread.                                      *)
(***************************************************************************)
\* a conversation_history entry; the timestamp is left out.  g is not in the
\* code: the generation thread whose add_message event opened the entry
\* (0 for an entry no generation thread opened).
Entry(speaker, text, tag, g) ==
  [speaker |-> speaker, text |-> text, tag |-> tag, g |-> g]

\* add_message(speaker, text, tag), is_welcome False (lines 619-633)
add_message(speaker, text, tag, g) ==
  /\ conversation_area' = Append(conversation_area, Entry(speaker, text, tag, g))
  /\ conversation_history' = Append(conversation_history, Entry(speaker, text, tag, g))

\* append_to_last_message(text_chunk) (lines 635-640): the chunk goes to the
\* end of the transcript, and to the last entry of the history if there is one
append_to_last_message(text_chunk) ==
  /\ conversation_area' =
       IF conversation_area = <<>>
       THEN <<Entry("", text_chunk, "text", 0)>>
       ELSE [conversation_area EXCEPT ![Len(conversation_area)].text = @ \o text_chunk]
  /\ conversation_history' =
       IF conversation_history # <<>>
       THEN [conversation_history EXCEPT
               ![Len(conversation_history)].text = @ \o text_chunk]
       ELSE conversation_history

\* _set_ui_state(enabled) (lines 467-481)
_set_ui_state(enabled) ==
  controls' = IF enabled THEN "normal" ELSE "disabled"

\* generation threads started so far, and the id the next one gets
Started == {w \in GenIds : gens[w].pc # "none"}
NextGen == Cardinality(Started) + 1
\* submit_question events waiting in the queue
PendingSubmits == Cardinality({i \in 1..Len(queue) : queue[i].type = "submit_question"})
\* MaxGen caps the submissions of a run: one more may be made
MaySubmit == Cardinality(Started) + PendingSubmits < MaxGen

\* threading.Thread(target=self.get_ai_answer, args=(question, user_answer)).start()
StartGenThread(question, user_answer) ==
  /\ NextGen \in GenIds
  /\ gens' = [gens EXCEPT ![NextGen] =
                [NoGen EXCEPT !.pc = "resolve", !.question = question,
                              !.user_answer = user_answer,
                              !.accepted = Accepted(personal_context,
                                  company_context, selected_model_name,
                                  evaluation_mode)]]

\* submit_question_to_ai that records no question (line 494 left out)
submit_question_to_ai_KeepsQuestion(text) ==
  IF evaluation_mode
  THEN IF last_question_asked = ""
       THEN /\ messagebox' = "No Question"
            /\ UNCHANGED <<last_question_asked, conversation_history,
                           conversation_area, controls, gens>>
       ELSE /\ add_message("You (My Answer):", <<text>>, "you", 0)
            /\ _set_ui_state(FALSE)
            /\ StartGenThread(last_question_asked, text)
            /\ UNCHANGED <<last_question_asked, messagebox>>
  ELSE /\ add_message("You:", <<text>>, "you", 0)
       /\ _set_ui_state(FALSE)
       /\ StartGenThread(text, "")
       /\ UNCHANGED <<last_question_asked, messagebox>>

\* submit_question_to_ai without the test of line 485: an answer is
\* accepted whether or not a question was recorded
submit_question_to_ai_NoCheck(text) ==
  IF evaluation_mode
  THEN /\ add_message("You (My Answer):", <<text>>, "you", 0)
       /\ _set_ui_state(FALSE)
       /\ StartGenThread(last_question_asked, text)
       /\ UNCHANGED <<last_question_asked, messagebox>>
  ELSE /\ last_question_asked' = text
       /\ add_message("You:", <<text>>, "you", 0)
       /\ _set_ui_state(FALSE)
       /\ StartGenThread(text, "")
       /\ UNCHANGED messagebox

\* submit_question_to_ai(text), text non-empty (lines 483-497).  None, the
\* user_answer of a question, is the empty string: the code only tests its
\* truth value.
submit_question_to_ai(text) ==
  IF evaluation_mode
  THEN IF last_question_asked = ""
       THEN \* messagebox.showwarning("No Question", ...); return
            /\ messagebox' = "No Question"
            /\ UNCHANGED <<last_question_asked, conversation_history,
                           conversation_area, controls, gens>>
       ELSE /\ add_message("You (My Answer):", <<text>>, "you", 0)
            /\ _set_ui_state(FALSE)
            /\ StartGenThread(last_question_asked, text)
            /\ UNCHANGED <<last_question_asked, messagebox>>
  ELSE /\ last_question_asked' = text
       /\ add_message("You:", <<text>>, "you", 0)
       /\ _set_ui_state(FALSE)
       /\ StartGenThread(text, "")
       /\ UNCHANGED messagebox

(***************************************************************************)
(* Handlers of the interactive thread.  Tk runs one handler at a time, so  *)
(* none starts while process_queue is inside its loop.                     *)
(***************************************************************************)
\* MaxGen caps the submissions of a run: a handler that would start a
\* generation thread runs only while one more may be started
WithinMaxGen == (evaluation_mode /\ last_question_asked = "") \/ MaySubmit

\* send_text_question (lines 499-503), from <Return> or the Send button of
\* the enabled input row, with a typed non-empty text
send_text_question(text) ==
  /\ ~in_tick
  /\ controls = "normal"
  /\ WithinMaxGen
  /\ submit_question_to_ai(text)
  /\ UNCHANGED <<configVars, storeVars, voiceUiVars, logVars, evaluation_mode,
                 last_ai_response, queue, in_tick, timers, is_listening,
                 voices, nToggle>>

\* on_dropdown_select (lines 505-515) of the enabled dropdown, a question
\* other than the placeholder picked by a click
on_dropdown_select(question) ==
  /\ ~in_tick
  /\ controls = "normal"
  /\ IF evaluation_mode
     THEN /\ messagebox' = "Evaluation Mode Active"
          /\ last_question_asked' = question
          /\ UNCHANGED <<conversation_history, conversation_area, controls, gens>>
     ELSE /\ MaySubmit
          /\ submit_question_to_ai(question)
  /\ UNCHANGED <<configVars, storeVars, voiceUiVars, logVars, evaluation_mode,
                 last_ai_response, queue, in_tick, timers, is_listening,
                 voices, nToggle>>

\* the "Answer Evaluation Mode" switch (line 257): never disabled
toggle_evaluation_mode ==
  /\ ~in_tick
  /\ nToggle < MaxToggle
  /\ evaluation_mode' = ~evaluation_mode
  /\ nToggle' = nToggle + 1
  /\ UNCHANGED <<configVars, storeVars, messagebox, voiceUiVars, logVars, last_question_asked,
                 last_ai_response, conversation_history, conversation_area,
                 controls, queue, in_tick, timers, is_listening, gens, voices>>

\* clear_conversation (lines 289-295), the Clear button: never disabled
clear_conversation ==
  /\ ~in_tick
  /\ conversation_area' = <<>>
  /\ conversation_history' = <<>>
  /\ last_ai_response' = <<>>
  /\ UNCHANGED <<configVars, storeVars, messagebox, voiceUiVars, logVars, evaluation_mode,
                 last_question_asked, controls, queue, in_tick, timers,
                 is_listening, gens, voices, nToggle>>

\* the file picked in the Load dialog: one json.load reads, holding a saved
\* history, or one it rejects.  iterable: what json.load returns is a list.
SavedHistory == <<Entry("You:", <<"saved">>, "you", 0),
                  Entry("AI:", <<"old">>, "ai", 0)>>
UnreadableFile == [readable |-> FALSE, iterable |-> FALSE, history |-> <<>>]
LoadFiles == {[readable |-> TRUE, iterable |-> TRUE, history |-> SavedHistory],
              UnreadableFile}

\* a key a record of the file does not have
Absent == "<absent>"
\* files json.load reads that no save_conversation wrote: a JSON value that
\* is no list (a number, null), and a list whose first record has no 'tag'
MalformedFiles ==
  {[readable |-> TRUE, iterable |-> FALSE, history |-> <<>>],
   [readable |-> TRUE, iterable |-> TRUE,
    history |-> <<Entry("AI:", <<"old">>, Absent, 0),
                  Entry("You:", <<"saved">>, "you", 0)>>]}
\* e['speaker'], e['text'] or e['tag'] raises KeyError (line 676)
Incomplete(e) == e.speaker = Absent \/ e.text = <<Absent>> \/ e.tag = Absent

\* json.dump(self.conversation_history, f) (line 659) followed by json.load
\* (line 671): every entry comes back as a record with its speaker, text and
\* tag.  The file does not tell which generation thread opened an entry.
FileRecord(entry) == Entry(entry.speaker, entry.text, entry.tag, 0)
Serialised(history) == [i \in 1..Len(history) |-> FileRecord(history[i])]

\* save_conversation (lines 650-662), the Save button: never disabled.  open
\* raises (the file stays as it was), the write raises (the file holds a
\* truncated text), or the history is written.
SaveOutcomes == {"written", "open_raises", "write_raises"}

save_conversation(outcome) ==
  /\ ~in_tick
  /\ CASE outcome = "written" ->
            /\ saved_file' = <<[readable |-> TRUE, iterable |-> TRUE,
                                history |-> Serialised(conversation_history)]>>
            /\ UNCHANGED messagebox
       [] outcome = "open_raises" ->
            /\ messagebox' = "Save Error"
            /\ UNCHANGED saved_file
       [] outcome = "write_raises" ->
            /\ messagebox' = "Save Error"
            /\ saved_file' = <<UnreadableFile>>
  /\ UNCHANGED <<configVars, questionVars, load_log, voiceUiVars, logVars,
                 evaluation_mode, last_question_asked, last_ai_response,
                 conversation_history, conversation_area, controls, queue,
                 in_tick, timers, is_listening, gens, voices, nToggle>>

\* every record of the file has the three keys
WellFormed(file) ==
  file.iterable /\ \A i \in 1..Len(file.history) : ~Incomplete(file.history[i])

\* what load_log keeps of a load (not in the code): the file read and, for a
\* file that is not a list of whole records, the conversation the load found
LoadRecord(file) ==
  [file |-> file,
   history |-> IF WellFormed(file) THEN <<>> ELSE conversation_history,
   area |-> IF WellFormed(file) THEN <<>> ELSE conversation_area]

\* load_conversation (lines 664-679), the Load button: never disabled.  A
\* file json.load rejects gives the Load Error box and changes nothing else;
\* otherwise the conversation is cleared (line 673) and one add_message per
\* entry is scheduled with root.after(10, ...); iterating a value that is no
\* list raises, after the clear, and gives the Load Error box.
load_conversation(file) ==
  /\ ~in_tick
  /\ IF ~file.readable
     THEN /\ messagebox' = "Load Error"
          /\ UNCHANGED <<conversation_area, conversation_history,
                         last_ai_response, timers, load_log>>
     ELSE /\ conversation_area' = <<>>
          /\ conversation_history' = <<>>
          /\ last_ai_response' = <<>>
          /\ load_log' = <<LoadRecord(file)>>
          /\ IF file.iterable
             THEN /\ Len(timers) + Len(file.history) <= MaxTimers
                  /\ timers' = timers \o [i \in 1..Len(file.history) |->
                                  AddMessageEv(file.history[i].speaker,
                                               file.history[i].text,
                                               file.history[i].tag, 0)]
                  /\ UNCHANGED messagebox
             ELSE /\ messagebox' = "Load Error"
                  /\ UNCHANGED timers
  /\ UNCHANGED <<configVars, questionVars, saved_file, voiceUiVars, logVars,
                 evaluation_mode, last_question_asked, controls, queue,
                 in_tick, is_listening, gens, voices, nToggle>>

\* [q for q in self.predefined_questions if q != DEFAULT_PREDEFINED_QUESTIONS[0]]
IsQuestion(q) == q # Placeholder
WithoutPlaceholder(questions) == SelectSeq(questions, IsQuestion)

\* the rows of settings_question_listbox (_refresh_question_listbox, lines
\* 367-372, run when the tab is built and after every change of the list)
Listbox == WithoutPlaceholder(predefined_questions)
\* list.index(x): the position of the first x
IndexOf(questions, x) ==
  CHOOSE i \in 1..Len(questions) :
    questions[i] = x /\ \A j \in 1..(i - 1) : questions[j] # x
\* the list without its element at position i
RemoveAt(questions, i) ==
  [k \in 1..(Len(questions) - 1) |->
     IF k < i THEN questions[k] ELSE questions[k + 1]]

ManagerFrame == <<configVars, fileVars, dropdown_values, voiceUiVars, logVars,
                  evaluation_mode, last_question_asked, last_ai_response,
                  conversation_history, conversation_area, controls, queue,
                  in_tick, timers, is_listening, gens, voices, nToggle>>

\* _add_question (lines 381-388), the Add New button of the question tab
_add_question(new_question) ==
  /\ ~in_tick
  /\ Len(predefined_questions) < MaxQuestions
  /\ predefined_questions' =
       IF new_question # "" /\
          \A i \in 1..Len(Listbox) : Listbox[i] # new_question
       THEN Append(predefined_questions, new_question)
       ELSE predefined_questions
  /\ UNCHANGED <<ManagerFrame, messagebox>>

\* _update_question (lines 390-407), the Update button: selected is the row
\* picked in the listbox (0: none)
_update_question(selected, updated_text) ==
  /\ ~in_tick
  /\ IF selected = 0
     THEN /\ messagebox' = "No Selection"
          /\ UNCHANGED predefined_questions
     ELSE IF updated_text = ""
     THEN /\ messagebox' = "Empty Question"
          /\ UNCHANGED predefined_questions
     ELSE /\ predefined_questions' =
               [predefined_questions EXCEPT
                  ![IndexOf(predefined_questions, Listbox[selected])] = updated_text]
          /\ UNCHANGED messagebox
  /\ UNCHANGED ManagerFrame

\* _delete_question (lines 409-418), the Delete button
_delete_question(selected) ==
  /\ ~in_tick
  /\ IF selected = 0
     THEN /\ messagebox' = "No Selection"
          /\ UNCHANGED predefined_questions
     ELSE /\ predefined_questions' =
               RemoveAt(predefined_questions,
                        IndexOf(predefined_questions, Listbox[selected]))
          /\ UNCHANGED messagebox
  /\ UNCHANGED ManagerFrame

\* questions_to_save of _save_config (lines 138-140), written to config.json
\* when the window is closed (line 151)
questions_to_save == <<Placeholder>> \o WithoutPlaceholder(predefined_questions)

\* save_settings (lines 420-435), Save & Close of the settings dialog, which
\* the never-disabled Settings button opens: the three fields it takes from
\* the dialog; the placeholder is put first in the question list when it is
\* not first already, and the dropdown gets the list
save_settings(persona, company, model) ==
  /\ ~in_tick
  /\ nSettings < MaxSettings
  /\ personal_context' = persona
  /\ company_context' = company
  /\ selected_model_name' = model
  /\ predefined_questions' =
       IF predefined_questions = <<>> \/ predefined_questions[1] # Placeholder
       THEN <<Placeholder>> \o WithoutPlaceholder(predefined_questions)
       ELSE predefined_questions
  /\ dropdown_values' = predefined_questions'
  /\ nSettings' = nSettings + 1
  /\ UNCHANGED <<env, gemini_model, fileVars, voiceUiVars, logVars, evaluation_mode,
                 last_question_asked, last_ai_response, conversation_history,
                 conversation_area, controls, queue, in_tick, timers,
                 is_listening, gens, voices, messagebox, nToggle>>


(***************************************************************************)
(* _generate_prompt (lines 452-465): the prompt as the sequence of its     *)
(* blocks.  evaluation_mode, persona and company are the fields it reads.  *)
(***************************************************************************)
Block(kind, value) == [kind |-> kind, value |-> value]

\* _generate_prompt that puts the company block after the question
_generate_prompt_CompanyLast(eval_mode, persona, company, question, user_answer) ==
  IF eval_mode /\ user_answer # ""
  THEN <<Block("system", "SYSTEM_PROMPT_EVALUATION"), Block("context", persona)>>
       \o (IF company # "" THEN <<Block("company", company)>> ELSE <<>>)
       \o <<Block("question", question), Block("answer", user_answer)>>
  ELSE <<Block("system", "SYSTEM_PROMPT_BASE"), Block("context", persona)>>
       \o <<Block("question", question)>>
       \o (IF company # "" THEN <<Block("company", company)>> ELSE <<>>)

_generate_prompt(eval_mode, persona, company, question, user_answer) ==
  IF eval_mode /\ user_answer # ""
  THEN <<Block("system", "SYSTEM_PROMPT_EVALUATION"), Block("context", persona)>>
       \o (IF company # "" THEN <<Block("company", company)>> ELSE <<>>)
       \o <<Block("question", question), Block("answer", user_answer)>>
  ELSE <<Block("system", "SYSTEM_PROMPT_BASE"), Block("context", persona)>>
       \o (IF company # "" THEN <<Block("company", company)>> ELSE <<>>)
       \o <<Block("question", question)>>

(***************************************************************************)
(* What a provider can deliver.                                            *)
(*                                                                         *)
(* Provider A (OpenRouter): the lines of response.iter_lines():             *)
(*   "content"    a well-formed delta with a non-empty 'content'           *)
(*   "blank"      an empty line, or one not starting with "data: "         *)
(*   "bad_json"   a data line json.loads rejects                           *)
(*   "no_choices" a JSON object without the key 'choices'                  *)
(*   "no_content" a delta with no or empty 'content'                       *)
(*   "bad_shape"  JSON with 'choices' but no choices[0]['delta'] mapping   *)
(*   "[DONE]"     the end-of-stream sentinel                               *)
(*   "eof"        the iterator is exhausted                                *)
(*   "error"      the read raises requests' RequestException               *)
(* Provider B (Google): the items of the response stream: "content" (a     *)
(* chunk with text), "no_content" (a chunk with empty text), "eof", or     *)
(* "error" (the iteration or chunk.text raises).                           *)
(* fed records a content line by its text, any other line by its kind.     *)
(***************************************************************************)
SkippedLines == {"blank", "bad_json", "no_choices", "no_content"}
EndingLines == {"[DONE]", "eof", "error", "bad_shape"}
OpenRouterLines == {"content"} \cup SkippedLines \cup EndingLines
GoogleChunks == {"content", "no_content", "eof", "error"}
\* the lines of a response with no malformed line in it
PlainLines == {"content", "[DONE]", "error"}

\* a response is capped: after n lines the next one ends it
LinesAfter(w, lines, n) ==
  IF Len(fed[w]) < n /\ Len(fed[w]) < Len(FragNames) THEN lines
  ELSE lines \cap {"[DONE]", "eof", "error", "bad_shape"}
\* the text of the content line delivered next
NextFrag(w) == FragAt(Len(fed[w]) + 1)
\* what fed records for a line
Fed(w, line) == IF line = "content" THEN NextFrag(w) ELSE line

(***************************************************************************)
(* The generation thread: get_ai_answer and the adapter it calls.          *)
(***************************************************************************)
\* self.queue.put(ev) by generation thread w
GenPut(w, ev) ==
  /\ Len(queue) < MaxQueue
  /\ queue' = Append(queue, ev)
  /\ emitted' = [emitted EXCEPT ![w] = Append(@, ev)]

GenGoto(w, pc) == gens' = [gens EXCEPT ![w].pc = pc]
GenEnd(w, pc, outcome) ==
  gens' = [gens EXCEPT ![w].pc = pc, ![w].outcome = outcome]

\* GenResolve that reports a missing key and carries on to the prompt
GenResolve_NoReturn(w) ==
  /\ gens[w].pc = "resolve"
  /\ LET model_config == ModelsGet(selected_model_name) IN
     IF model_config = NoProfile
     THEN /\ GenPut(w, AddMessageEv("Error:",
                          ModelNotConfiguredMsg(selected_model_name), "error", w))
          /\ GenEnd(w, "return", "not_configured")
     ELSE IF ~env[model_config.key_name]
     THEN /\ GenPut(w, AddMessageEv("Error:",
                          ApiKeyErrorMsg(model_config.key_name), "error", w))
          /\ gens' = [gens EXCEPT ![w].pc = "prompt",
                                  ![w].outcome = "no_key",
                                  ![w].model_config = model_config]
     ELSE /\ gens' = [gens EXCEPT ![w].pc = "prompt",
                                  ![w].model_config = model_config]
          /\ UNCHANGED <<queue, emitted>>
  /\ UNCHANGED <<configVars, storeVars, messagebox, voiceUiVars, fed, evaluation_mode,
                 last_question_asked, last_ai_response, conversation_history,
                 conversation_area, controls, in_tick, timers, is_listening,
                 voices, nToggle>>

\* lines 544-553: resolve the profile and its key; on failure put the error
\* entry and go to the return statement's put
GenResolve(w) ==
  /\ gens[w].pc = "resolve"
  /\ LET model_config == ModelsGet(selected_model_name) IN
     IF model_config = NoProfile
     THEN /\ GenPut(w, AddMessageEv("Error:",
                          ModelNotConfiguredMsg(selected_model_name), "error", w))
          /\ GenEnd(w, "return", "not_configured")
     ELSE IF ~env[model_config.key_name]
     THEN /\ GenPut(w, AddMessageEv("Error:",
                          ApiKeyErrorMsg(model_config.key_name), "error", w))
          /\ GenEnd(w, "return", "no_key")
     ELSE /\ gens' = [gens EXCEPT ![w].pc = "prompt",
                                  ![w].model_config = model_config]
          /\ UNCHANGED <<queue, emitted>>
  /\ UNCHANGED <<configVars, storeVars, messagebox, voiceUiVars, fed, evaluation_mode,
                 last_question_asked, last_ai_response, conversation_history,
                 conversation_area, controls, in_tick, timers, is_listening,
                 voices, nToggle>>

\* lines 547 and 553: put set_ui_state True; return
GenReturn(w) ==
  /\ gens[w].pc = "return"
  /\ GenPut(w, SetUiStateEv(TRUE, w))
  /\ GenGoto(w, "done")
  /\ UNCHANGED <<configVars, storeVars, messagebox, voiceUiVars, fed, evaluation_mode,
                 last_question_asked, last_ai_response, conversation_history,
                 conversation_area, controls, in_tick, timers, is_listening,
                 voices, nToggle>>

\* line 555: full_prompt = self._generate_prompt(question, user_answer)
GenPrompt(w) ==
  /\ gens[w].pc = "prompt"
  /\ gens' = [gens EXCEPT
       ![w].pc = "tag",
       ![w].full_prompt = _generate_prompt(evaluation_mode, personal_context,
                            company_context, gens[w].question, gens[w].user_answer)]
  /\ UNCHANGED <<configVars, storeVars, messagebox, voiceUiVars, logVars, evaluation_mode,
                 last_question_asked, last_ai_response, conversation_history,
                 conversation_area, controls, queue, in_tick, timers,
                 is_listening, voices, nToggle>>

\* line 557: tag = 'eval' if self.evaluation_mode.get() else 'ai'
GenTag(w) ==
  /\ gens[w].pc = "tag"
  /\ gens' = [gens EXCEPT ![w].pc = "open",
                          ![w].tag = IF evaluation_mode THEN "eval" ELSE "ai"]
  /\ UNCHANGED <<configVars, storeVars, messagebox, voiceUiVars, logVars, evaluation_mode,
                 last_question_asked, last_ai_response, conversation_history,
                 conversation_area, controls, queue, in_tick, timers,
                 is_listening, voices, nToggle>>

\* GenOpen that opens no entry
GenOpen_NoPut(w) ==
  /\ gens[w].pc = "open"
  /\ last_ai_response' = <<>>
  /\ GenGoto(w, "call")
  /\ UNCHANGED <<configVars, storeVars, messagebox, voiceUiVars, logVars,
                 evaluation_mode, last_question_asked, conversation_history,
                 conversation_area, controls, queue, in_tick, timers,
                 is_listening, voices, nToggle>>

\* lines 558-561: read the speaker, put the event opening the empty
\* assistant entry, reset last_ai_response
GenOpen(w) ==
  /\ gens[w].pc = "open"
  /\ LET speaker == IF evaluation_mode THEN "AI (Evaluation):" ELSE "AI:" IN
     GenPut(w, AddMessageEv(speaker, <<>>, gens[w].tag, w))
  /\ last_ai_response' = <<>>
  /\ GenGoto(w, "call")
  /\ UNCHANGED <<configVars, storeVars, messagebox, voiceUiVars, fed, evaluation_mode,
                 last_question_asked, conversation_history, conversation_area,
                 controls, in_tick, timers, is_listening, voices, nToggle>>


\* GenExcept without the finally clause: the thread ends at the handler
GenExcept_NoFinally(w) ==
  /\ GenPut(w, StreamUpdateEv(UnexpectedErrorText, w))
  /\ GenEnd(w, "done", "unexpected")

\* lines 565-566: an exception leaving the adapter is reported as one
\* stream_update
GenExcept(w) ==
  /\ GenPut(w, StreamUpdateEv(UnexpectedErrorText, w))
  /\ GenEnd(w, "finally", "unexpected")

\* EmitFragment that accumulates the fragment and never puts it
EmitFragment_Unsent(w, text_chunk) ==
  /\ last_ai_response' = last_ai_response \o <<text_chunk>>
  /\ UNCHANGED <<queue, emitted>>

\* lines 584-585 and 597-598: one content fragment
EmitFragment(w, text_chunk) ==
  /\ last_ai_response' = last_ai_response \o <<text_chunk>>
  /\ GenPut(w, StreamUpdateEv(text_chunk, w))

\* lines 563 and 571-575: _get_openrouter_answer up to the streaming loop.
\* Line 571 reads self.selected_model_name again: a KeyError when it is no
\* key of MODELS, raised outside the adapter's try.  post and
\* raise_for_status either raise a RequestException (line 587) or give the
\* response.
OpenRouterPost(w) ==
  /\ gens[w].pc = "call"
  /\ gens[w].model_config.api = "openrouter"
  /\ IF selected_model_name \notin DOMAIN MODELS
     THEN GenExcept(w)
     ELSE \E ok \in BOOLEAN :
            IF ok
            THEN /\ gens' = [gens EXCEPT ![w].pc = "iter_lines",
                                         ![w].api_called = "openrouter",
                                         ![w].sent_id = MODELS[selected_model_name].id]
                 /\ UNCHANGED <<queue, emitted>>
            ELSE /\ GenPut(w, StreamUpdateEv(ApiConnectionErrorText, w))
                 /\ gens' = [gens EXCEPT ![w].pc = "finally",
                                         ![w].outcome = "fault",
                                         ![w].api_called = "openrouter",
                                         ![w].sent_id = MODELS[selected_model_name].id]
  /\ UNCHANGED <<configVars, storeVars, messagebox, voiceUiVars, fed, evaluation_mode,
                 last_question_asked, last_ai_response, conversation_history,
                 conversation_area, controls, in_tick, timers, is_listening,
                 voices, nToggle>>

\* lines 576-588: one turn of the loop over response.iter_lines()
OpenRouterLine(w, line) ==
  /\ gens[w].pc = "iter_lines"
  /\ fed' = [fed EXCEPT ![w] = Append(@, Fed(w, line))]
  /\ CASE line = "content" ->
            /\ EmitFragment(w, NextFrag(w))
            /\ UNCHANGED gens
       [] line \in SkippedLines ->
            UNCHANGED <<gens, queue, emitted, last_ai_response>>
       [] line \in {"[DONE]", "eof"} ->
            /\ GenEnd(w, "finally", "complete")
            /\ UNCHANGED <<queue, emitted, last_ai_response>>
       [] line = "error" ->
            /\ GenPut(w, StreamUpdateEv(ApiConnectionErrorText, w))
            /\ GenEnd(w, "finally", "fault")
            /\ UNCHANGED last_ai_response
       [] line = "bad_shape" ->
            \* IndexError, KeyError, TypeError or AttributeError at line 582:
            \* not a JSONDecodeError, not a RequestException
            /\ GenExcept(w)
            /\ UNCHANGED last_ai_response
  /\ UNCHANGED <<configVars, storeVars, messagebox, voiceUiVars, evaluation_mode, last_question_asked,
                 conversation_history, conversation_area, controls, in_tick,
                 timers, is_listening, voices, nToggle>>

\* lines 564 and 591-594: _get_google_gemini_answer up to the loop
GoogleCall(w) ==
  /\ gens[w].pc = "call"
  /\ gens[w].model_config.api = "google"
  /\ IF ~gemini_model
     THEN /\ GenPut(w, StreamUpdateEv(GoogleNotInitializedText, w))
          /\ GenEnd(w, "finally", "not_initialized")
     ELSE \E ok \in BOOLEAN :
            IF ok
            THEN /\ gens' = [gens EXCEPT ![w].pc = "iter_chunks",
                                         ![w].api_called = "google",
                                         ![w].sent_id = "gemini-1.5-flash-latest"]
                 /\ UNCHANGED <<queue, emitted>>
            ELSE /\ GenPut(w, StreamUpdateEv(GoogleAiErrorText, w))
                 /\ gens' = [gens EXCEPT ![w].pc = "finally",
                                         ![w].outcome = "fault",
                                         ![w].api_called = "google",
                                         ![w].sent_id = "gemini-1.5-flash-latest"]
  /\ UNCHANGED <<configVars, storeVars, messagebox, voiceUiVars, fed, evaluation_mode,
                 last_question_asked, last_ai_response, conversation_history,
                 conversation_area, controls, in_tick, timers, is_listening,
                 voices, nToggle>>

\* lines 595-600: one turn of the loop over response_stream
GoogleChunk(w, chunk) ==
  /\ gens[w].pc = "iter_chunks"
  /\ fed' = [fed EXCEPT ![w] = Append(@, Fed(w, chunk))]
  /\ CASE chunk = "content" ->
            /\ EmitFragment(w, NextFrag(w))
            /\ UNCHANGED gens
       [] chunk = "no_content" ->
            UNCHANGED <<gens, queue, emitted, last_ai_response>>
       [] chunk = "eof" ->
            /\ GenEnd(w, "finally", "complete")
            /\ UNCHANGED <<queue, emitted, last_ai_response>>
       [] chunk = "error" ->
            /\ GenPut(w, StreamUpdateEv(GoogleAiErrorText, w))
            /\ GenEnd(w, "finally", "fault")
            /\ UNCHANGED last_ai_response
  /\ UNCHANGED <<configVars, storeVars, messagebox, voiceUiVars, evaluation_mode, last_question_asked,
                 conversation_history, conversation_area, controls, in_tick,
                 timers, is_listening, voices, nToggle>>

\* a finally clause that puts nothing
GenFinally_NoPut(w) ==
  /\ gens[w].pc = "finally"
  /\ GenGoto(w, "done")
  /\ UNCHANGED <<configVars, storeVars, messagebox, voiceUiVars, logVars, evaluation_mode,
                 last_question_asked, last_ai_response, conversation_history,
                 conversation_area, controls, queue, in_tick, timers,
                 is_listening, voices, nToggle>>

\* lines 567-568: finally: put set_ui_state True
GenFinally(w) ==
  /\ gens[w].pc = "finally"
  /\ GenPut(w, SetUiStateEv(TRUE, w))
  /\ GenGoto(w, "done")
  /\ UNCHANGED <<configVars, storeVars, messagebox, voiceUiVars, fed, evaluation_mode,
                 last_question_asked, last_ai_response, conversation_history,
                 conversation_area, controls, in_tick, timers, is_listening,
                 voices, nToggle>>

(***************************************************************************)
(* process_queue (lines 602-613), the poll loop of the interactive thread. *)
(***************************************************************************)
\* a get that takes the event put last
ProcessQueueGet_Last ==
  /\ queue # <<>>
  /\ in_tick' = TRUE
  /\ LET ev == queue[Len(queue)] IN
     /\ queue' = SubSeq(queue, 1, Len(queue) - 1)
     /\ CASE ev.type = "submit_question" ->
               /\ submit_question_to_ai(ev.text[1])
               /\ UNCHANGED voiceUiVars
          [] ev.type = "add_message" ->
               /\ add_message(ev.speaker, ev.text, ev.tag, ev.g)
               /\ UNCHANGED <<voiceUiVars, messagebox, last_question_asked, controls, gens>>
          [] ev.type = "stream_update" ->
               /\ append_to_last_message(ev.text)
               /\ UNCHANGED <<voiceUiVars, messagebox, last_question_asked, controls, gens>>
          [] ev.type = "set_ui_state" ->
               /\ _set_ui_state(ev.flag)
               /\ UNCHANGED <<voiceUiVars, messagebox, last_question_asked,
                              conversation_history, conversation_area, gens>>
          [] ev.type = "button_update" ->
               /\ listen_button_text' = ev.text[1]
               /\ UNCHANGED <<voice_status_label, messagebox, last_question_asked, controls,
                              conversation_history, conversation_area, gens>>
          [] ev.type = "voice_status" ->
               /\ voice_status_label' = ev.text[1]
               /\ UNCHANGED <<listen_button_text, messagebox, last_question_asked, controls,
                              conversation_history, conversation_area, gens>>
  /\ UNCHANGED <<configVars, storeVars, logVars, evaluation_mode, last_ai_response,
                 timers, is_listening, voices, nToggle>>

\* one get_nowait that returns an event, and the branch applying it
ProcessQueueGet ==
  /\ queue # <<>>
  /\ in_tick' = TRUE
  /\ LET ev == Head(queue) IN
     /\ queue' = Tail(queue)
     /\ CASE ev.type = "submit_question" ->
               /\ submit_question_to_ai(ev.text[1])
               /\ UNCHANGED voiceUiVars
          [] ev.type = "add_message" ->
               /\ add_message(ev.speaker, ev.text, ev.tag, ev.g)
               /\ UNCHANGED <<voiceUiVars, messagebox, last_question_asked, controls, gens>>
          [] ev.type = "stream_update" ->
               /\ append_to_last_message(ev.text)
               /\ UNCHANGED <<voiceUiVars, messagebox, last_question_asked, controls, gens>>
          [] ev.type = "set_ui_state" ->
               /\ _set_ui_state(ev.flag)
               /\ UNCHANGED <<voiceUiVars, messagebox, last_question_asked,
                              conversation_history, conversation_area, gens>>
          [] ev.type = "button_update" ->
               /\ listen_button_text' = ev.text[1]
               /\ UNCHANGED <<voice_status_label, messagebox, last_question_asked, controls,
                              conversation_history, conversation_area, gens>>
          [] ev.type = "voice_status" ->
               /\ voice_status_label' = ev.text[1]
               /\ UNCHANGED <<listen_button_text, messagebox, last_question_asked, controls,
                              conversation_history, conversation_area, gens>>
  /\ UNCHANGED <<configVars, storeVars, logVars, evaluation_mode, last_ai_response,
                 timers, is_listening, voices, nToggle>>

\* get_nowait raises queue.Empty: the loop ends, the next tick is scheduled
ProcessQueueEmpty ==
  /\ in_tick
  /\ queue = <<>>
  /\ in_tick' = FALSE
  /\ UNCHANGED <<configVars, storeVars, messagebox, voiceUiVars, logVars, evaluation_mode,
                 last_question_asked, last_ai_response, conversation_history,
                 conversation_area, controls, queue, timers, is_listening,
                 gens, voices, nToggle>>


(***************************************************************************)
(* Voice capture: toggle_listening and the thread _listen_and_process.     *)
(***************************************************************************)
VoicesStarted == {v \in VoiceIds : voices[v] # "none"}
NextVoice == Cardinality(VoicesStarted) + 1

\* toggle_listening (lines 517-519), the command of the enabled Voice button
toggle_listening ==
  /\ ~in_tick
  /\ controls = "normal"
  /\ IF is_listening
     THEN /\ is_listening' = FALSE
          /\ UNCHANGED voices
     ELSE /\ NextVoice \in VoiceIds
          /\ is_listening' = TRUE
          /\ voices' = [voices EXCEPT ![NextVoice] = "begin"]
  /\ UNCHANGED <<configVars, storeVars, messagebox, voiceUiVars, logVars, evaluation_mode,
                 last_question_asked, last_ai_response, conversation_history,
                 conversation_area, controls, queue, in_tick, timers, gens,
                 nToggle>>

VoiceFrame == <<configVars, storeVars, messagebox, voiceUiVars, logVars, evaluation_mode,
                last_question_asked, last_ai_response, conversation_history,
                conversation_area, controls, in_tick, gens, nToggle>>

\* lines 522-523
VoiceBegin(v) ==
  /\ voices[v] = "begin"
  /\ Len(queue) + 2 <= MaxQueue
  /\ queue' = queue \o <<ButtonUpdateEv("Stop"), VoiceStatusEv("Calibrating...")>>
  /\ voices' = [voices EXCEPT ![v] = "calibrate"]
  /\ UNCHANGED <<VoiceFrame, timers, is_listening>>

\* lines 524-527: open the microphone and calibrate.  sr.Microphone()'s
\* __enter__ is outside the try: when it raises, the thread ends there.
VoiceCalibrate(v, mic_ok) ==
  /\ voices[v] = "calibrate"
  /\ IF mic_ok
     THEN /\ Len(queue) < MaxQueue
          /\ queue' = Append(queue, VoiceStatusEv("Listening..."))
          /\ voices' = [voices EXCEPT ![v] = "listen"]
     ELSE /\ voices' = [voices EXCEPT ![v] = "done"]
          /\ UNCHANGED queue
  /\ UNCHANGED <<VoiceFrame, timers, is_listening>>

\* lines 528-529 and 535: listen returns audio or raises WaitTimeoutError
VoiceListen(v, heard) ==
  /\ voices[v] = "listen"
  /\ Len(queue) < MaxQueue
  /\ IF heard
     THEN /\ queue' = Append(queue, VoiceStatusEv("Processing..."))
          /\ voices' = [voices EXCEPT ![v] = "recognize"]
     ELSE /\ queue' = Append(queue, VoiceStatusEv("Timed out"))
          /\ voices' = [voices EXCEPT ![v] = "finally"]
  /\ UNCHANGED <<VoiceFrame, timers, is_listening>>

\* lines 530-537: recognize_google returns a text ("" when blank after
\* strip()) or raises UnknownValueError or RequestError
RecognitionResults == Spoken \cup {"", "UnknownValueError", "RequestError"}

VoiceRecognize(v, result) ==
  /\ voices[v] = "recognize"
  /\ Len(queue) + 2 <= MaxQueue
  /\ result \in Spoken => MaySubmit
  /\ queue' =
       CASE result \in Spoken ->
              queue \o <<VoiceStatusEv("Recognized"), SubmitQuestionEv(result)>>
         [] result = "" -> Append(queue, VoiceStatusEv("No speech"))
         [] result = "UnknownValueError" ->
              Append(queue, VoiceStatusEv("Could not understand"))
         [] result = "RequestError" ->
              Append(queue, VoiceStatusEv("Network error"))
  /\ voices' = [voices EXCEPT ![v] = "finally"]
  /\ UNCHANGED <<VoiceFrame, timers, is_listening>>

\* lines 538-541: finally
VoiceFinally(v) ==
  /\ voices[v] = "finally"
  /\ Len(queue) < MaxQueue
  /\ is_listening' = FALSE
  /\ queue' = Append(queue, ButtonUpdateEv("Voice"))
  /\ timers' = Append(timers, VoiceStatusEv("Ready"))
  /\ voices' = [voices EXCEPT ![v] = "done"]
  /\ UNCHANGED VoiceFrame

\* a callback scheduled with root.after runs on the interactive thread.
\* Callbacks of one delay run in the order they were scheduled: those of
\* line 541 (2000 ms) put their event, those of line 676 (10 ms) call
\* add_message with the fields of their record.
TimerFire ==
  /\ ~in_tick
  /\ \E i \in 1..Len(timers) :
       /\ \A j \in 1..(i - 1) : timers[j].type # timers[i].type
       /\ timers' = [k \in 1..(Len(timers) - 1) |->
                       IF k < i THEN timers[k] ELSE timers[k + 1]]
       /\ IF timers[i].type = "add_message"
          THEN /\ IF Incomplete(timers[i])
                  THEN \* the callback raises KeyError: Tk reports it
                       UNCHANGED <<conversation_history, conversation_area>>
                  ELSE add_message(timers[i].speaker, timers[i].text,
                                   timers[i].tag, 0)
               /\ UNCHANGED queue
          ELSE /\ Len(queue) < MaxQueue
               /\ queue' = Append(queue, timers[i])
               /\ UNCHANGED <<conversation_history, conversation_area>>
  /\ UNCHANGED <<configVars, storeVars, messagebox, voiceUiVars, logVars, evaluation_mode,
                 last_question_asked, last_ai_response, controls, in_tick,
                 is_listening, gens, voices, nToggle>>

(***************************************************************************)
(* The program.                                                            *)
(***************************************************************************)
\* get_ai_answer with the OpenRouter adapter
GenStepOpenRouter(w, lines, n) ==
  \/ GenResolve(w)
  \/ GenReturn(w)
  \/ GenPrompt(w)
  \/ GenTag(w)
  \/ GenOpen(w)
  \/ OpenRouterPost(w)
  \/ \E line \in LinesAfter(w, lines, n) : OpenRouterLine(w, line)
  \/ GenFinally(w)

\* the Google adapter
GenStepGoogle(w, chunks, n) ==
  \/ GoogleCall(w)
  \/ \E chunk \in LinesAfter(w, chunks, n) : GoogleChunk(w, chunk)

VoiceStep(v) ==
  \/ VoiceBegin(v)
  \/ \E mic_ok \in BOOLEAN : VoiceCalibrate(v, mic_ok)
  \/ \E heard \in BOOLEAN : VoiceListen(v, heard)
  \/ \E result \in RecognitionResults : VoiceRecognize(v, result)
  \/ VoiceFinally(v)

ProcessQueue == ProcessQueueGet \/ ProcessQueueEmpty

\* Spec: the user submits by keyboard, dropdown and voice while generations
\* run, and leaves the settings and the evaluation switch alone: the model
\* stays the OpenRouter model of line 103.  Responses hold no malformed line.
Next ==
  \/ \E text \in Texts : send_text_question(text)
  \/ \E question \in Questions : on_dropdown_select(question)
  \/ (is_listening \/ Cardinality(VoicesStarted) < MaxVoiceWithGen)
       /\ toggle_listening
  \/ TimerFire
  \/ ProcessQueue
  \/ \E w \in GenIds : GenStepOpenRouter(w, PlainLines, MaxShortStream)
  \/ \E v \in VoiceIds : VoiceStep(v)

\* SpecSettings: the user submits by keyboard and dropdown, and between and
\* during generations applies new settings.  Responses hold no malformed
\* line.
NextSettings ==
  \/ \E text \in Texts : send_text_question(text)
  \/ \E question \in Questions : on_dropdown_select(question)
  \/ \E persona \in Personas, company \in Companies, model \in ModelChoices :
       save_settings(persona, company, model)
  \/ ProcessQueue
  \/ \E w \in GenIds :
       \/ GenStepOpenRouter(w, PlainLines, MaxShortStream)
       \/ GenStepGoogle(w, {"content", "eof", "error"}, MaxShortStream)

SpecSettings == Init /\ [][NextSettings]_vars

\* SpecStream: the user submits by keyboard and may change the model in the
\* settings dialog; a response is any sequence of lines the provider can
\* deliver.
NextStream ==
  \/ \E text \in Texts :
       Cardinality(Started) < MaxStreamGen /\ send_text_question(text)
  \/ \E model \in ModelChoices :
       save_settings(personal_context, company_context, model)
  \/ ProcessQueue
  \/ \E w \in GenIds :
       \/ GenStepOpenRouter(w, OpenRouterLines, MaxStream)
       \/ GenStepGoogle(w, GoogleChunks, MaxStream)

SpecStream == Init /\ [][NextStream]_vars

\* SpecEval: the user flips the evaluation switch, and submits by keyboard
\* and voice.
NextEval ==
  \/ \E text \in Texts : send_text_question(text)
  \/ toggle_evaluation_mode
  \/ (is_listening \/ Cardinality(VoicesStarted) < MaxVoiceWithGen)
       /\ toggle_listening
  \/ TimerFire
  \/ ProcessQueue
  \/ \E w \in GenIds : GenStepOpenRouter(w, PlainLines, MaxNoStream)
  \/ \E v \in VoiceIds : VoiceStep(v)

\* no Google key is set (the selected model is the OpenRouter one)
InitNoGoogle == Init /\ ~env["GOOGLE_API_KEY"]

SpecEval == InitNoGoogle /\ [][NextEval]_vars

\* SpecLoad: the user submits by keyboard, and clears or loads the
\* conversation, also while a response streams.
NextLoad ==
  \/ \E text \in Texts : send_text_question(text)
  \/ clear_conversation
  \/ \E file \in LoadFiles : load_conversation(file)
  \/ TimerFire
  \/ ProcessQueue
  \/ \E w \in GenIds : GenStepOpenRouter(w, PlainLines, MaxShortStream)

SpecLoad == InitNoGoogle /\ [][NextLoad]_vars

\* SpecQuestion: the user submits by keyboard and dropdown, flips the
\* evaluation switch, and clears or loads the conversation.  Responses hold
\* no content.
NextQuestion ==
  \/ \E text \in Texts :
       Cardinality(Started) < MaxStreamGen /\ send_text_question(text)
  \/ \E question \in Questions :
       /\ evaluation_mode \/ Cardinality(Started) < MaxStreamGen
       /\ on_dropdown_select(question)
  \/ toggle_evaluation_mode
  \/ clear_conversation
  \/ \E file \in LoadFiles : load_conversation(file)
  \/ TimerFire
  \/ ProcessQueue
  \/ \E w \in GenIds : GenStepOpenRouter(w, PlainLines, MaxNoStream)

SpecQuestion == InitNoGoogle /\ [][NextQuestion]_vars

\* SpecVoice: the user starts and stops voice capture, also while an
\* earlier capture is still running; recognised texts are submitted.
\* Responses hold no content.
NextVoiceCapture ==
  \/ toggle_listening
  \/ TimerFire
  \/ ProcessQueue
  \/ \E w \in GenIds : GenStepOpenRouter(w, PlainLines, MaxNoStream)
  \/ \E v \in VoiceIds : VoiceStep(v)

SpecVoice == InitNoGoogle /\ [][NextVoiceCapture]_vars

\* SpecLive: the user submits by keyboard and voice; the poll loop keeps
\* being scheduled (line 613) and every generation thread keeps running
\* until it returns: the provider's calls return or raise.
NextLive ==
  \/ \E text \in Texts : send_text_question(text)
  \/ (is_listening \/ Cardinality(VoicesStarted) < MaxVoiceWithGen)
       /\ toggle_listening
  \/ TimerFire
  \/ ProcessQueue
  \/ \E w \in GenIds : GenStepOpenRouter(w, PlainLines, MaxShortStream)
  \/ \E v \in VoiceIds : VoiceStep(v)

SpecLive ==
  /\ InitNoGoogle
  /\ [][NextLive]_vars
  /\ WF_vars(ProcessQueue)
  /\ \A w \in GenIds : WF_vars(GenStepOpenRouter(w, PlainLines, MaxShortStream))

\* none of load_conversation's callbacks is waiting to run
NoLoadPending == \A i \in 1..Len(timers) : timers[i].type # "add_message"
\* the files the Load dialog can pick
FilesOnDisk ==
  LoadFiles \cup MalformedFiles \cup {saved_file[i] : i \in 1..Len(saved_file)}

\* SpecFile: the user submits by keyboard, saves the conversation and loads
\* a file, also while a generation runs.  The file dialogs run the event
\* loop while they are open, so the callbacks of an earlier Load have run
\* when a dialog returns.  Responses hold no content.
NextFile ==
  \/ \E text \in Texts :
       Cardinality(Started) < MaxStreamGen /\ send_text_question(text)
  \/ \E outcome \in SaveOutcomes : NoLoadPending /\ save_conversation(outcome)
  \/ \E file \in FilesOnDisk : NoLoadPending /\ load_conversation(file)
  \/ TimerFire
  \/ ProcessQueue
  \/ \E w \in GenIds : GenStepOpenRouter(w, PlainLines, MaxNoStream)

SpecFile == InitNoGoogle /\ [][NextFile]_vars

\* SpecCopy: the user submits by keyboard and clears the conversation, also
\* while a response of up to MaxStream fragments streams.
NextCopy ==
  \/ \E text \in Texts : send_text_question(text)
  \/ clear_conversation
  \/ ProcessQueue
  \/ \E w \in GenIds : GenStepOpenRouter(w, PlainLines, MaxStream)

SpecCopy == InitNoGoogle /\ [][NextCopy]_vars

\* SpecManager: the user edits the question list in the settings dialog and
\* presses Save & Close; the other settings stay as they are.
NextManager ==
  \/ \E new_question \in QuestionTexts : _add_question(new_question)
  \/ \E selected \in 0..Len(Listbox), updated_text \in QuestionTexts :
       _update_question(selected, updated_text)
  \/ \E selected \in 0..Len(Listbox) : _delete_question(selected)
  \/ save_settings(personal_context, company_context, selected_model_name)

SpecManager == Init /\ [][NextManager]_vars

Spec == Init /\ [][Next]_vars

(***************************************************************************)
(* Vocabulary of the properties.                                           *)
(***************************************************************************)
\* generation thread w is running
Active(w) == gens[w].pc \notin {"none", "done"}
Finished(w) == gens[w].pc = "done"
\* none of w's events is waiting in the queue
NoneQueued(w) == \A i \in 1..Len(queue) : queue[i].g # w
\* every event w will ever put has been applied by process_queue
AllApplied(w) == Finished(w) /\ NoneQueued(w)

IsSetUiState(ev) == ev.type = "set_ui_state"
IsStreamUpdate(ev) == ev.type = "stream_update"
IsFailure(ev) == ev.type = "stream_update" /\ ev.text[1] \in FailureTexts
IsFragment(ev) == ev.type = "stream_update" /\ ev.text[1] \notin FailureTexts
IsOpening(ev) == ev.type = "add_message" /\ ev.tag \in {"ai", "eval"}
IsErrorEntry(ev) == ev.type = "add_message" /\ ev.tag = "error"

\* the texts of a sequence of stream_update events, concatenated
TextOf(evs) == [i \in 1..Len(evs) |-> evs[i].text[1]]
StreamUpdates(w) == SelectSeq(emitted[w], IsStreamUpdate)
FragmentsPut(w) == TextOf(SelectSeq(emitted[w], IsFragment))
FailuresPut(w) == TextOf(SelectSeq(emitted[w], IsFailure))
\* how many times w has put set_ui_state
SetUiStatesPut(w) == Len(SelectSeq(emitted[w], IsSetUiState))

\* the content the provider delivered to w, in order
IsFrag(x) == x \in Frags
FragmentsFed(lines) == SelectSeq(lines, IsFrag)
\* the lines up to the first end-of-stream sentinel or end of iteration
RECURSIVE UpToSentinel(_)
UpToSentinel(lines) ==
  IF lines = <<>> \/ Head(lines) \in {"[DONE]", "eof"} THEN <<>>
  ELSE <<Head(lines)>> \o UpToSentinel(Tail(lines))

\* the history entries opened by generation thread w
EntriesOf(w) ==
  {i \in 1..Len(conversation_history) :
     conversation_history[i].g = w /\ conversation_history[i].tag # "error"}

(***************************************************************************)
(* C1: at most one generation thread runs get_ai_answer at any time,       *)
(* whichever way submissions arrive (keyboard, dropdown, a recognised      *)
(* voice text applied by process_queue).                                   *)
(***************************************************************************)
C1_AtMostOneGenerationWorker ==
  Cardinality({w \in GenIds : Active(w)}) <= 1

(***************************************************************************)
(* C2: every run of get_ai_answer puts ("set_ui_state", True) exactly      *)
(* once, as the last event it puts, on every exit path: a running thread   *)
(* has put none, a finished one has put exactly one and put it last.       *)
(***************************************************************************)
C2_SetUiStateOnceAndLast ==
  \A w \in GenIds :
    LET n == SetUiStatesPut(w) IN
    /\ ~Finished(w) => n = 0
    /\ Finished(w) => /\ n = 1
                      /\ emitted[w][Len(emitted[w])] = SetUiStateEv(TRUE, w)

\* a generation that left through the exception handler, after a fragment,
\* has finished
C2_Witness ==
  \E w \in GenIds :
    /\ Finished(w)
    /\ gens[w].outcome = "unexpected"
    /\ FragmentsPut(w) # <<>>

(***************************************************************************)
(* C3: once a generation that streamed f1..fN and completed has had all    *)
(* its events applied, the assistant entry opened for it holds exactly     *)
(* f1..fN in order, and it has put set_ui_state True exactly once.         *)
(***************************************************************************)
C3_EntryHoldsFragmentsInOrder ==
  \A w \in GenIds :
    (gens[w].outcome = "complete" /\ AllApplied(w)) =>
      /\ \E i \in EntriesOf(w) :
           conversation_history[i].text = FragmentsFed(fed[w])
      /\ SetUiStatesPut(w) = 1

(***************************************************************************)
(* C4: from the acceptance of a submission until its own final             *)
(* set_ui_state True is applied, the input controls are disabled.          *)
(***************************************************************************)
OwnSetUiStatePending(w) ==
  \/ ~Finished(w)
  \/ \E i \in 1..Len(queue) : queue[i] = SetUiStateEv(TRUE, w)

C4_ControlsDisabledWhileInFlight ==
  \A w \in Started : OwnSetUiStatePending(w) => controls = "disabled"

(***************************************************************************)
(* C5: a step of a background thread (generation or voice) changes nothing *)
(* the interactive thread owns: its only effect on the interactive thread  *)
(* is an event put on the queue.                                           *)
(***************************************************************************)
UiOwned ==
  <<last_ai_response, last_question_asked, conversation_history,
    conversation_area, controls, listen_button_text, voice_status_label,
    evaluation_mode, timers>>

BackgroundStep ==
  \/ \E w \in GenIds : GenStepOpenRouter(w, PlainLines, MaxShortStream)
  \/ \E v \in VoiceIds : VoiceStep(v)

C5_BackgroundThreadsOnlyPutEvents ==
  [][BackgroundStep => UNCHANGED UiOwned]_vars

(***************************************************************************)
(* C6: the personal and company contexts in a generation's prompt are the  *)
(* ones in force when its submission was accepted.                         *)
(***************************************************************************)
BlockValue(prompt, kind) ==
  LET S == {i \in 1..Len(prompt) : prompt[i].kind = kind} IN
  IF S = {} THEN "" ELSE prompt[CHOOSE i \in S : TRUE].value

C6_PromptUsesContextsAtAcceptance ==
  \A w \in GenIds :
    gens[w].full_prompt # <<>> =>
      /\ BlockValue(gens[w].full_prompt, "context") = gens[w].accepted.persona
      /\ BlockValue(gens[w].full_prompt, "company") = gens[w].accepted.company

(***************************************************************************)
(* C7: when the transport fails in the middle of a stream, the generation  *)
(* has put the fragments received before the failure, then exactly one     *)
(* failure text, and once its events are applied its entry holds those     *)
(* fragments followed by the failure text.                                 *)
(***************************************************************************)
FailedMidStream(w) ==
  /\ fed[w] # <<>>
  /\ fed[w][Len(fed[w])] = "error"

C7_FaultKeepsFragmentsThenOneFailure ==
  \A w \in GenIds :
    FailedMidStream(w) =>
      /\ FragmentsPut(w) = FragmentsFed(fed[w])
      /\ Len(FailuresPut(w)) = 1
      /\ TextOf(StreamUpdates(w)) = FragmentsPut(w) \o FailuresPut(w)
      /\ AllApplied(w) =>
           \E i \in EntriesOf(w) :
             conversation_history[i].text = FragmentsFed(fed[w]) \o FailuresPut(w)

(***************************************************************************)
(* C8: a malformed line of Provider A's stream (unparseable, or parseable  *)
(* without the expected fields) is skipped: as long as no read has failed, *)
(* the generation has put no failure text and the fragments it has put are *)
(* the content delivered so far.                                           *)
(***************************************************************************)
NoReadFailed(w) == \A i \in 1..Len(fed[w]) : fed[w][i] # "error"

C8_MalformedLineIsSkipped ==
  \A w \in GenIds :
    (gens[w].api_called = "openrouter" /\ fed[w] # <<>> /\ NoReadFailed(w)) =>
      /\ FailuresPut(w) = <<>>
      /\ FragmentsPut(w) = FragmentsFed(fed[w])
      /\ gens[w].outcome \in {"", "complete"}

(***************************************************************************)
(* C9: a generation fed N fragments and then the end of the stream has put *)
(* exactly those N fragments, in the order delivered, no failure text, and *)
(* read nothing after the sentinel.                                        *)
(***************************************************************************)
C9_FragmentsInOrderThenComplete ==
  \A w \in GenIds :
    gens[w].outcome = "complete" =>
      /\ FragmentsPut(w) = FragmentsFed(UpToSentinel(fed[w]))
      /\ FailuresPut(w) = <<>>
      /\ Len(fed[w]) = Len(UpToSentinel(fed[w])) + 1
      /\ Finished(w) =>
           emitted[w][Len(emitted[w])] = SetUiStateEv(TRUE, w)

\* two fragments, then the sentinel, and the thread has finished
C9_Witness ==
  \E w \in GenIds :
    /\ Finished(w)
    /\ gens[w].outcome = "complete"
    /\ fed[w] = <<FragAt(1), FragAt(2), "[DONE]">>

(***************************************************************************)
(* C10: when the selected model is not in the registry or its credential   *)
(* is missing, the generation puts one error entry naming the model or the *)
(* missing key, then set_ui_state True, and nothing else: no assistant     *)
(* entry is opened and no transport is called.  Once both are applied the  *)
(* controls are enabled again, so a later submission is accepted.          *)
(***************************************************************************)
KeyNames == {MODELS[name].key_name : name \in DOMAIN MODELS}

NamesTheProblem(w, ev) ==
  /\ IsErrorEntry(ev)
  /\ ev.speaker = "Error:"
  /\ IF gens[w].outcome = "no_key"
     THEN \E key_name \in KeyNames :
            ev.text = ApiKeyErrorMsg(key_name) /\ ~env[key_name]
     ELSE \E name \in ModelChoices \ DOMAIN MODELS :
            ev.text = ModelNotConfiguredMsg(name)

IsLatest(w) == \A x \in Started : x <= w

C10_ConfigurationErrorEndsGeneration ==
  \A w \in GenIds :
    gens[w].outcome \in {"not_configured", "no_key"} =>
      /\ gens[w].api_called = ""
      /\ fed[w] = <<>>
      /\ Len(emitted[w]) \in 1..2
      /\ NamesTheProblem(w, emitted[w][1])
      /\ Finished(w) <=> Len(emitted[w]) = 2
      /\ Finished(w) => emitted[w][2] = SetUiStateEv(TRUE, w)
      /\ EntriesOf(w) = {}
      /\ (AllApplied(w) /\ IsLatest(w)) => controls = "normal"

\* a generation ended by a missing key, its events applied, and a later
\* submission accepted
C10_Witness ==
  \E w \in GenIds :
    /\ gens[w].outcome = "no_key"
    /\ AllApplied(w)
    /\ \E x \in Started : x > w

(***************************************************************************)
(* C11: a submission in evaluation mode while last_question_asked is empty *)
(* is answered with the "No Question" warning and nothing else: no         *)
(* generation thread is started (so no provider is called), no entry is    *)
(* added, the controls stay enabled and last_question_asked stays empty;   *)
(* for a typed text and for a recognised voice text applied by             *)
(* process_queue alike.                                                    *)
(***************************************************************************)
EvalWithoutQuestion == evaluation_mode /\ last_question_asked = ""
TypedSubmission == \E text \in Texts : send_text_question(text)
VoiceSubmission ==
  /\ queue # <<>>
  /\ Head(queue).type = "submit_question"
  /\ ProcessQueueGet

C11_EvalWithoutQuestionIsRefused ==
  [][(EvalWithoutQuestion /\ (TypedSubmission \/ VoiceSubmission)) =>
       /\ messagebox' = "No Question"
       /\ controls' = "normal"
       /\ last_question_asked' = ""
       /\ UNCHANGED <<gens, emitted, fed, conversation_history,
                      conversation_area>>]_vars

\* a recognised voice text was applied in evaluation mode with no question
\* recorded, and was refused
C11_Witness ==
  /\ messagebox = "No Question"
  /\ EvalWithoutQuestion
  /\ voice_status_label = "Recognized"
  /\ PendingSubmits = 0
  /\ Started = {}
  /\ conversation_history = <<>>
  /\ controls = "normal"

(***************************************************************************)
(* C12: the prompt of a generation follows the evaluation flag as it stood *)
(* when the submission was accepted: accepted in evaluation mode, it is    *)
(* the evaluation prompt with the recorded question and the submitted      *)
(* answer, both non-empty; accepted otherwise, it is the answering prompt. *)
(***************************************************************************)
HasBlock(prompt, kind) == \E i \in 1..Len(prompt) : prompt[i].kind = kind

C12_TemplateFollowsModeAtAcceptance ==
  \A w \in GenIds :
    gens[w].full_prompt # <<>> =>
      IF gens[w].accepted.eval_mode
      THEN /\ gens[w].full_prompt[1] = Block("system", "SYSTEM_PROMPT_EVALUATION")
           /\ BlockValue(gens[w].full_prompt, "question") = gens[w].question
           /\ BlockValue(gens[w].full_prompt, "answer") = gens[w].user_answer
           /\ gens[w].question # ""
           /\ gens[w].user_answer # ""
      ELSE /\ gens[w].full_prompt[1] = Block("system", "SYSTEM_PROMPT_BASE")
           /\ ~HasBlock(gens[w].full_prompt, "answer")

(***************************************************************************)
(* C13: a stream_update is only ever appended to the assistant entry that  *)
(* the same generation opened: when process_queue applies one and the      *)
(* history is not empty, the last entry is that generation's own "ai" or   *)
(* "eval" entry, never a user entry, an error entry, a restored entry or   *)
(* the entry of another generation.                                        *)
(***************************************************************************)
AppliesStreamUpdate ==
  /\ queue # <<>>
  /\ Head(queue).type = "stream_update"
  /\ ProcessQueueGet

LastEntry == conversation_history[Len(conversation_history)]

C13_FragmentsGoToOwnEntry ==
  [][(AppliesStreamUpdate /\ conversation_history # <<>>) =>
       /\ LastEntry.g = Head(queue).g
       /\ LastEntry.tag \in {"ai", "eval"}]_vars

(***************************************************************************)
(* C14: in every state the message texts of the transcript are, in order,  *)
(* the texts of conversation_history, also when clear_conversation runs    *)
(* while a response streams.                                               *)
(***************************************************************************)
TextsOf(entries) == [i \in 1..Len(entries) |-> entries[i].text]

C14_TranscriptEqualsHistory ==
  TextsOf(conversation_area) = TextsOf(conversation_history)

(***************************************************************************)
(* C20: a step that starts a generation in non-evaluation mode sets        *)
(* last_question_asked to the submitted text; one that starts it in        *)
(* evaluation mode leaves last_question_asked as it is and hands the       *)
(* thread (last_question_asked, submitted answer); clear_conversation and  *)
(* load_conversation leave last_question_asked as it is.                   *)
(***************************************************************************)
NewGen == CHOOSE w \in Started' \ Started : TRUE
\* the text of the user entry the step added
SubmittedText == conversation_history'[Len(conversation_history')].text[1]

C20_LastQuestionFollowsSubmissions ==
  [][/\ Started' # Started =>
          IF evaluation_mode
          THEN /\ last_question_asked' = last_question_asked
               /\ gens'[NewGen].question = last_question_asked
               /\ gens'[NewGen].user_answer = SubmittedText
          ELSE /\ last_question_asked' = SubmittedText
               /\ gens'[NewGen].question = SubmittedText
               /\ gens'[NewGen].user_answer = ""
     /\ (clear_conversation \/ \E file \in LoadFiles : load_conversation(file)) =>
          last_question_asked' = last_question_asked]_vars

\* a question was asked, an answer to it was submitted in evaluation mode,
\* and a saved conversation was loaded afterwards
C20_Witness ==
  \E w \in GenIds :
    /\ gens[w].accepted.eval_mode
    /\ gens[w].user_answer # ""
    /\ gens[w].question = last_question_asked
    /\ last_question_asked # ""
    /\ conversation_history = SavedHistory

(***************************************************************************)
(* C21: saving the conversation writes its entries in order, and loading   *)
(* the saved file gives, when the last of the load's callbacks has run, a  *)
(* conversation_history with the (speaker, text, tag) of the saved         *)
(* entries, in order.                                                      *)
(***************************************************************************)
ContentOf(entries) ==
  [i \in 1..Len(entries) |->
     <<entries[i].speaker, entries[i].text, entries[i].tag>>]

Saves == save_conversation("written")
\* the last callback of a load runs
LoadFinishes == TimerFire /\ ~NoLoadPending /\ NoLoadPending'
\* the file of the load in progress is the one save_conversation wrote
LoadingSavedFile ==
  /\ load_log # <<>>
  /\ saved_file # <<>>
  /\ load_log[1].file = saved_file[1]

C21_SaveThenLoadRestoresHistory ==
  [][/\ Saves =>
          ContentOf(saved_file'[1].history) = ContentOf(conversation_history)
     /\ (LoadFinishes /\ LoadingSavedFile) =>
          ContentOf(conversation_history') = ContentOf(saved_file[1].history)]_vars

(***************************************************************************)
(* C22: a prompt built with the answering template holds, in this order,   *)
(* the instruction preamble, the persona block and the question, and       *)
(* between persona and question the company block if and only if the       *)
(* company context is not empty; it holds nothing else.                    *)
(***************************************************************************)
\* line 454: the test that selects the evaluation template
BuildsEvaluation(w) == evaluation_mode /\ gens[w].user_answer # ""

C22_AnsweringPromptOrder ==
  [][\A w \in GenIds :
       (GenPrompt(w) /\ ~BuildsEvaluation(w)) =>
         LET prompt == gens'[w].full_prompt IN
         /\ prompt[1] = Block("system", "SYSTEM_PROMPT_BASE")
         /\ prompt[2] = Block("context", personal_context)
         /\ prompt[Len(prompt)] = Block("question", gens[w].question)
         /\ HasBlock(prompt, "company") <=> company_context # ""
         /\ IF company_context # ""
            THEN Len(prompt) = 4 /\ prompt[3] = Block("company", company_context)
            ELSE Len(prompt) = 3]_vars

\* one prompt was built with a company context and one without
C22_Witness ==
  \E w, x \in GenIds :
    /\ Len(gens[w].full_prompt) = 4
    /\ HasBlock(gens[w].full_prompt, "company")
    /\ Len(gens[x].full_prompt) = 3
    /\ ~HasBlock(gens[x].full_prompt, "company")

(***************************************************************************)
(* C23: a generation thread that has passed the resolution of model and    *)
(* key puts exactly one event opening an empty assistant entry, and puts   *)
(* it before any fragment or failure text: its first event is the opening  *)
(* one and no other is; so when process_queue applies a stream_update of a *)
(* generation, that generation's entry has been added.                     *)
(***************************************************************************)
PastOpening(w) ==
  \/ gens[w].pc \in {"call", "iter_lines", "iter_chunks", "finally"}
  \/ Finished(w) /\ gens[w].outcome \notin {"not_configured", "no_key"}

C23_EntryOpenedBeforeFragments ==
  /\ [](\A w \in GenIds :
         /\ Len(SelectSeq(emitted[w], IsOpening)) <= 1
         /\ StreamUpdates(w) # <<>> => PastOpening(w)
         /\ PastOpening(w) =>
              /\ emitted[w] # <<>>
              /\ IsOpening(emitted[w][1])
              /\ emitted[w][1].text = <<>>
              /\ Len(SelectSeq(emitted[w], IsOpening)) = 1)
  /\ [][AppliesStreamUpdate => EntriesOf(Head(queue).g) # {}]_vars

\* fragments and then a failure text have been applied to the entry the
\* generation opened
C23_Witness ==
  \E w \in GenIds :
    /\ AllApplied(w)
    /\ FragmentsPut(w) # <<>>
    /\ FailuresPut(w) # <<>>
    /\ \E i \in EntriesOf(w) :
         conversation_history[i].text = FragmentsPut(w) \o FailuresPut(w)

(***************************************************************************)
(* C24: the entry a generation thread opens has the tag "eval" and the     *)
(* speaker "AI (Evaluation):" exactly when the thread built its prompt     *)
(* with the evaluation template: template, tag and speaker of one          *)
(* generation agree.                                                       *)
(***************************************************************************)
EvaluationPrompt(w) ==
  gens[w].full_prompt[1] = Block("system", "SYSTEM_PROMPT_EVALUATION")

C24_TemplateTagAndSpeakerAgree ==
  \A w \in GenIds :
    \A i \in 1..Len(emitted[w]) :
      IsOpening(emitted[w][i]) =>
        /\ emitted[w][i].tag = "eval" <=> EvaluationPrompt(w)
        /\ emitted[w][i].speaker = "AI (Evaluation):" <=> EvaluationPrompt(w)
        /\ emitted[w][i].tag = "ai" <=> emitted[w][i].speaker = "AI:"

(***************************************************************************)
(* C25: within one generation the adapter called, the key tested and the   *)
(* model id sent belong to one profile of MODELS, the one selected when    *)
(* the submission was accepted, also when Save & Close of the settings     *)
(* dialog selects another model while the thread runs.                     *)
(***************************************************************************)
C25_OneProfilePerGeneration ==
  \A w \in GenIds :
    gens[w].api_called # "" =>
      LET profile == ModelsGet(gens[w].accepted.model) IN
      /\ gens[w].model_config = profile
      /\ gens[w].api_called = profile.api
      /\ gens[w].sent_id = profile.id

(***************************************************************************)
(* C26: whenever no generation thread is running, last_ai_response (what   *)
(* Copy Last copies) is empty or is the content fragments, all of them and *)
(* in order, of the latest generation that reached the streaming step: no  *)
(* failure text, and no mere tail of a response, also when                 *)
(* clear_conversation runs while the response streams.                     *)
(***************************************************************************)
Streamed == {w \in GenIds : PastOpening(w)}

C26_LastResponseIsWholeOrEmpty ==
  (\A w \in GenIds : ~Active(w)) =>
    \/ last_ai_response = <<>>
    \/ \E w \in Streamed :
         /\ \A x \in Streamed : x <= w
         /\ last_ai_response = FragmentsFed(fed[w])

(***************************************************************************)
(* C27: load_conversation is all-or-nothing.  When a load ends (at once    *)
(* when it schedules no callback, else when its last callback has run),    *)
(* either the file was a list of whole records and conversation_history    *)
(* holds its entries in file order, or conversation_history and the        *)
(* transcript are what they were before the load.                          *)
(***************************************************************************)
Restored(file) ==
  /\ WellFormed(file)
  /\ ContentOf(conversation_history') = ContentOf(file.history)

C27_LoadIsAllOrNothing ==
  [][/\ \A file \in FilesOnDisk :
          (load_conversation(file) /\ NoLoadPending') =>
            \/ Restored(file)
            \/ UNCHANGED <<conversation_history, conversation_area>>
     /\ LoadFinishes =>
          \/ Restored(load_log[1].file)
          \/ /\ ~WellFormed(load_log[1].file)
             /\ conversation_history' = load_log[1].history
             /\ conversation_area' = load_log[1].area]_vars

(***************************************************************************)
(* C28: after Save & Close of the settings dialog, whatever was added,     *)
(* updated and deleted in the question tab before, each of the question    *)
(* lists (predefined_questions, the values of the dropdown, the list       *)
(* _save_config writes) holds the placeholder exactly once, as its first   *)
(* element, and holds no question twice.                                   *)
(***************************************************************************)
PlaceholderOnceFirst(questions) ==
  /\ questions # <<>>
  /\ questions[1] = Placeholder
  /\ \A i \in 2..Len(questions) : questions[i] # Placeholder

NoDuplicate(questions) ==
  \A i, j \in 1..Len(questions) : questions[i] = questions[j] => i = j

SavesSettings ==
  \E persona \in Personas, company \in Companies, model \in ModelChoices :
    save_settings(persona, company, model)

C28_QuestionListNormalised ==
  [][SavesSettings =>
       /\ PlaceholderOnceFirst(predefined_questions')
       /\ NoDuplicate(predefined_questions')
       /\ PlaceholderOnceFirst(dropdown_values')
       /\ NoDuplicate(dropdown_values')
       /\ PlaceholderOnceFirst(questions_to_save')
       /\ NoDuplicate(questions_to_save')]_vars

(***************************************************************************)
(* C17: voice capture is cancelled cooperatively: once is_listening is     *)
(* clear, a capture thread starts no further step: it does not go on to    *)
(* listen or to recognise, and puts no submit_question.                    *)
(***************************************************************************)
C17_StoppedCaptureTakesNoFurtherStep ==
  [][\A v \in VoiceIds :
       (~is_listening /\ voices'[v] # voices[v]) =>
         /\ voices'[v] \notin {"listen", "recognize"}
         /\ PendingSubmits' <= PendingSubmits]_vars

(***************************************************************************)
(* C18: at most one voice capture thread exists at any time.               *)
(***************************************************************************)
Capturing(v) == voices[v] \notin {"none", "done"}

C18_AtMostOneVoiceThread ==
  Cardinality({v \in VoiceIds : Capturing(v)}) <= 1

(***************************************************************************)
(* C19: every capture, whatever its outcome, ends by clearing is_listening *)
(* and putting the reset of the voice button as its last button update:    *)
(* once no capture thread is running and the queue is drained, the button  *)
(* shows the idle label and is_listening is clear.                         *)
(***************************************************************************)
C19_CaptureEndsIdle ==
  ((\A v \in VoiceIds : ~Capturing(v)) /\ queue = <<>>) =>
     /\ listen_button_text = "Voice"
     /\ ~is_listening

(***************************************************************************)
(* C15: when the provider's calls end and the poll loop keeps running,     *)
(* every accepted submission is eventually followed by a state in which    *)
(* all its events have been applied and the input controls are enabled.    *)
(***************************************************************************)
C15_ControlsEventuallyEnabled ==
  \A w \in GenIds :
    (gens[w].pc # "none") ~> (AllApplied(w) /\ controls = "normal")

\* a generation whose request failed has had all its events applied and the
\* controls are enabled
C15_Witness ==
  \E w \in GenIds :
    /\ gens[w].outcome = "fault"
    /\ AllApplied(w)
    /\ controls = "normal"

(***************************************************************************)
(* C16: process_queue takes the events off the head of the queue, one at a *)
(* time, and applies each; puts only add at the tail; so events are        *)
(* applied once each, in the order they were put, and a queue that holds   *)
(* events is eventually drained.                                           *)
(***************************************************************************)
\* what applying ev shows
Applied(ev) ==
  CASE ev.type = "set_ui_state" ->
         controls' = IF ev.flag THEN "normal" ELSE "disabled"
    [] ev.type = "button_update" -> listen_button_text' = ev.text[1]
    [] ev.type = "voice_status" -> voice_status_label' = ev.text[1]
    [] ev.type = "add_message" ->
         conversation_history' =
           Append(conversation_history, Entry(ev.speaker, ev.text, ev.tag, ev.g))
    [] ev.type = "stream_update" ->
         /\ conversation_area' # <<>>
         /\ LET new == conversation_area'[Len(conversation_area')].text IN
            new[Len(new)] = ev.text[1]
    [] ev.type = "submit_question" ->
         Started' # Started \/ messagebox' = "No Question"

====
